---- MODULE Spec2Model ----
(***************************************************************************)
(* Model of fastbots.task.Task.__call__ (src/fastbots/task.py): the        *)
(* retrying task executor.  One call of Task.__call__ is one behaviour;    *)
(* the position inside the call is pc.  Python values are modelled by      *)
(* their repr strings ("True", "False", "None", "0", "str"), so that       *)
(* identity with False (`is False`) and truthiness (`if result:`) are two  *)
(* different predicates, as they are in the code.                          *)
(***************************************************************************)
EXTENDS Integers, Sequences, FiniteSets, TLC

\* ---- bounds of the model ----
MaxRetries == 3          \* BOT_MAX_RETRIES ranges over 0..MaxRetries
MaxDelay == 2            \* BOT_RETRY_DELAY ranges over 1..MaxDelay

\* ---- value domains ----
DriverTypes == {"FIREFOX", "CHROME", "OTHER"}
RunValues == {"True", "False", "None", "0", "str"}
CallbackValues == {"None", "True", "False"}
NoPayload == 0           \* Python None for the local `payload`
NoBot == 0               \* Python None for the local `bot`

VARIABLES
    BOT_MAX_RETRIES,     \* config.BOT_MAX_RETRIES
    BOT_RETRY_DELAY,     \* config.BOT_RETRY_DELAY
    BOT_DRIVER_TYPE,     \* config.BOT_DRIVER_TYPE
    pc,                  \* position inside Task.__call__
    attempt_number,      \* retry_state.attempt_number
    outcome,             \* retry_state.outcome
    result,              \* local `result`
    payload,             \* local `payload` (reference to a carrier, or NoPayload)
    bot,                 \* local `bot` (reference to a bot, or NoBot)
    payloads,            \* heap of carriers, payloads[b] is the carrier of bot b
    open,                \* the bots whose driver is open
    ret,                 \* how the call ended
    log,                 \* history of the call: <<event, number, detail>>
    page                 \* local `page` of TestTask.run, "-" outside run

vars == <<BOT_MAX_RETRIES, BOT_RETRY_DELAY, BOT_DRIVER_TYPE, pc, attempt_number,
          outcome, result, payload, bot, payloads, open, ret, log, page>>

config == <<BOT_MAX_RETRIES, BOT_RETRY_DELAY, BOT_DRIVER_TYPE>>

\* ---- pure helpers ----

\* Python truthiness of a value, as used by `if result:`.
Truthy(value) == value \in {"True", "str"}

\* A retry predicate with the test inverted.
is_false_negated(value) == value # "False"

\* Task.__is_false__: `value is False` (identity, not falsiness).
is_false(value) == value = "False"

\* A stop condition that allows one attempt too many.
stop_after_attempt_late(max, number) == number > max

\* tenacity stop_after_attempt(max): attempt_number >= max.
stop_after_attempt(max, number) == number >= max

\* tenacity wait_fixed(delay): the same delay whatever the attempt.
wait_fixed(delay, number) == delay

\* tenacity retry_if_result(predicate): an attempt that ended with an
\* exception is never retried; otherwise the predicate decides.
retry_if_result(o) == IF o.failed THEN FALSE ELSE is_false(o.value)

\* A SearchPage.forward without its return statement.
forward_returns_nothing(p) == "None"

\* What forward returns: SearchPage.forward a ProductPage, ProductPage.forward
\* None.
forward(p) == IF p = "SearchPage" THEN "ProductPage" ELSE "None"

\* ProductPage.forward stores the product name in the bot's carrier.
WritesPayload(p) == p = "ProductPage"

\* `while page:`, a page object is truthy and None is not.
PageTruthy(p) == p # "None"

\* retry_state.outcome values.
NoOutcome == [set |-> FALSE, failed |-> FALSE, value |-> "-"]
Result(value) == [set |-> TRUE, failed |-> FALSE, value |-> value]
Failed == [set |-> TRUE, failed |-> TRUE, value |-> "-"]

\* Bot().payload of a newly constructed bot: an empty carrier.
EmptyPayload == [data |-> {}, result |-> "unset"]

\* ret values.
Running == [kind |-> "running", value |-> "-"]
Returned(value) == [kind |-> "return", value |-> value]
Raised == [kind |-> "raise", value |-> "-"]

Logged(event, number, detail) == log' = Append(log, <<event, number, detail>>)

\* ---- the call ----

Init ==
    /\ BOT_MAX_RETRIES \in 0..MaxRetries
    /\ BOT_RETRY_DELAY \in 1..MaxDelay
    /\ BOT_DRIVER_TYPE \in DriverTypes
    /\ pc = "iter"
    /\ attempt_number = 1
    /\ outcome = NoOutcome
    /\ result = "False"
    /\ payload = NoPayload
    /\ bot = NoBot
    /\ payloads = <<>>
    /\ open = {}
    /\ ret = Running
    /\ log = <<>>
    /\ page = "-"

\* Retrying.iter, no outcome yet: DoAttempt, the body of the for loop runs.
IterDoAttempt ==
    /\ pc = "iter"
    /\ ~outcome.set
    /\ pc' = "attempt"
    /\ bot' = NoBot
    /\ Logged("attempt", attempt_number, "-")
    /\ UNCHANGED <<config, page, attempt_number, outcome, result, payload, payloads, open, ret>>

\* Retrying.iter, the attempt ended with a result that is not retried:
\* the for loop ends and control reaches `if result:`.
IterReturn ==
    /\ pc = "iter"
    /\ outcome.set /\ ~outcome.failed
    /\ ~retry_if_result(outcome)
    /\ pc' = "check"
    /\ UNCHANGED <<config, page, attempt_number, outcome, result, payload, bot, payloads, open, ret, log>>

\* Retrying.iter, the attempt ended with an exception: it is not retried,
\* fut.result() re-raises it; it is not a RetryError, so it leaves __call__.
IterReraise ==
    /\ pc = "iter"
    /\ outcome.set /\ outcome.failed
    /\ ~retry_if_result(outcome)
    /\ pc' = "done"
    /\ ret' = Raised
    /\ UNCHANGED <<config, page, attempt_number, outcome, result, payload, bot, payloads, open, log>>

\* A retry loop that sleeps before it looks at the stop condition.
IterRetryError_sleeps ==
    /\ pc = "iter"
    /\ outcome.set
    /\ retry_if_result(outcome)
    /\ stop_after_attempt(BOT_MAX_RETRIES, attempt_number)
    /\ Logged("sleep", wait_fixed(BOT_RETRY_DELAY, attempt_number), "-")
    /\ pc' = "on_failure"
    /\ UNCHANGED <<config, page, attempt_number, outcome, result, payload, bot, payloads, open, ret>>

\* Retrying.iter, retry wanted but the stop condition holds: RetryError,
\* caught by `except RetryError`.
IterRetryError ==
    /\ pc = "iter"
    /\ outcome.set
    /\ retry_if_result(outcome)
    /\ stop_after_attempt(BOT_MAX_RETRIES, attempt_number)
    /\ pc' = "on_failure"
    /\ UNCHANGED <<config, page, attempt_number, outcome, result, payload, bot, payloads, open, ret, log>>

\* Retrying.iter, retry wanted and allowed: DoSleep; __iter__ prepares the
\* next attempt and sleeps wait_fixed(BOT_RETRY_DELAY).
IterDoSleep ==
    /\ pc = "iter"
    /\ outcome.set
    /\ retry_if_result(outcome)
    /\ ~stop_after_attempt(BOT_MAX_RETRIES, attempt_number)
    /\ Logged("sleep", wait_fixed(BOT_RETRY_DELAY, attempt_number), "-")
    /\ attempt_number' = attempt_number + 1
    /\ outcome' = NoOutcome
    /\ pc' = "iter"
    /\ UNCHANGED <<config, page, result, payload, bot, payloads, open, ret>>

\* Lines 104-111, a bot is constructed: a new driver is open and the bot
\* owns a new, empty carrier.
Construct ==
    /\ pc = "attempt"
    /\ BOT_DRIVER_TYPE \in {"FIREFOX", "CHROME"}
    /\ bot' = Len(payloads) + 1
    /\ payloads' = Append(payloads, EmptyPayload)
    /\ open' = open \cup {bot'}
    /\ pc' = "run"
    /\ Logged("construct", attempt_number, BOT_DRIVER_TYPE)
    /\ UNCHANGED <<config, page, attempt_number, outcome, result, payload, ret>>

\* Lines 104-111, no bot: the driver type is unknown (ValueError) or the
\* constructor raises.  AttemptManager.__exit__ records the exception as the
\* outcome and swallows it; line 133 then leaves the outcome alone.
ConstructRaises ==
    /\ pc = "attempt"
    /\ outcome' = Failed
    /\ pc' = "iter"
    /\ Logged("construct", attempt_number, "raise")
    /\ UNCHANGED <<config, page, attempt_number, result, payload, bot, payloads, open, ret>>

\* A collection that keeps the carrier it already has.
RunReturns_keeps ==
    /\ pc = "run"
    /\ \E value \in RunValues, wrote \in BOOLEAN :
        /\ result' = value
        /\ payload' = IF payload = NoPayload THEN bot ELSE payload
        /\ payloads' = [payloads EXCEPT
              ![bot].data = IF wrote THEN @ \cup {attempt_number} ELSE @,
              ![payload'].result = value]
        /\ Logged("run", attempt_number, value)
    /\ pc' = "exit"
    /\ UNCHANGED <<config, page, attempt_number, outcome, bot, open, ret>>

\* Lines 115-117, run returns `value`, having written to the carrier or not.
RunReturns ==
    /\ pc = "run"
    /\ \E value \in RunValues, wrote \in BOOLEAN :
        /\ result' = value
        /\ payload' = bot
        /\ payloads' = [payloads EXCEPT ![bot] =
              [data |-> IF wrote THEN @.data \cup {attempt_number} ELSE @.data,
               result |-> value]]
        /\ Logged("run", attempt_number, value)
    /\ pc' = "exit"
    /\ UNCHANGED <<config, page, attempt_number, outcome, bot, open, ret>>

\* Lines 115, 118-121, run raises, having written to the carrier or not.
RunRaises ==
    /\ pc = "run"
    /\ \E wrote \in BOOLEAN :
        payloads' = [payloads EXCEPT ![bot].data =
              IF wrote THEN @ \cup {attempt_number} ELSE @]
    /\ result' = "False"
    /\ pc' = "save_html"
    /\ Logged("run", attempt_number, "raise")
    /\ UNCHANGED <<config, page, attempt_number, outcome, payload, bot, open, ret>>

\* Line 125, bot.save_html() returns.
SaveHtml ==
    /\ pc = "save_html"
    /\ pc' = "save_screenshot"
    /\ Logged("save_html", attempt_number, "ok")
    /\ UNCHANGED <<config, page, attempt_number, outcome, result, payload, bot, payloads, open, ret>>

\* A save_html whose fault does not stop the screenshot.
SaveHtmlRaises_continues ==
    /\ pc = "save_html"
    /\ payload' = NoPayload
    /\ pc' = "save_screenshot"
    /\ Logged("save_html", attempt_number, "raise")
    /\ UNCHANGED <<config, page, attempt_number, outcome, result, bot, payloads, open, ret>>

\* A handler of the collection fault that forgets `payload = None`.
SaveHtmlRaises_keeps ==
    /\ pc = "save_html"
    /\ pc' = "exit"
    /\ Logged("save_html", attempt_number, "raise")
    /\ UNCHANGED <<config, page, attempt_number, outcome, result, payload, bot, payloads, open, ret>>

\* Lines 125, 129-131, bot.save_html() raises.
SaveHtmlRaises ==
    /\ pc = "save_html"
    /\ payload' = NoPayload
    /\ pc' = "exit"
    /\ Logged("save_html", attempt_number, "raise")
    /\ UNCHANGED <<config, page, attempt_number, outcome, result, bot, payloads, open, ret>>

\* A collection after a fault that does not record the result.
SaveScreenshot_noresult ==
    /\ pc = "save_screenshot"
    /\ payload' = bot
    /\ pc' = "exit"
    /\ Logged("save_screenshot", attempt_number, "ok")
    /\ UNCHANGED <<config, page, attempt_number, outcome, result, bot, payloads, open, ret>>

\* Lines 126-128, bot.save_screenshot() returns and the carrier is collected.
SaveScreenshot ==
    /\ pc = "save_screenshot"
    /\ payload' = bot
    /\ payloads' = [payloads EXCEPT ![bot].result = result]
    /\ pc' = "exit"
    /\ Logged("save_screenshot", attempt_number, "ok")
    /\ UNCHANGED <<config, page, attempt_number, outcome, result, bot, open, ret>>

\* Lines 126, 129-131, bot.save_screenshot() raises.
SaveScreenshotRaises ==
    /\ pc = "save_screenshot"
    /\ payload' = NoPayload
    /\ pc' = "exit"
    /\ Logged("save_screenshot", attempt_number, "raise")
    /\ UNCHANGED <<config, page, attempt_number, outcome, result, bot, payloads, open, ret>>

\* A bot that is not used as a context manager: nothing closes the driver.
BotExit_leaks ==
    /\ pc = "exit"
    /\ outcome' = Result(result)
    /\ pc' = "iter"
    /\ Logged("exit", attempt_number, "ok")
    /\ UNCHANGED <<config, page, attempt_number, result, payload, bot, payloads, open, ret>>

\* End of `with bot:` and of `with attempt:`, lines 133-134: the driver is
\* closed and the attempt's outcome becomes `result`.
BotExit ==
    /\ pc = "exit"
    /\ open' = open \ {bot}
    /\ outcome' = Result(result)
    /\ pc' = "iter"
    /\ Logged("exit", attempt_number, "ok")
    /\ UNCHANGED <<config, page, attempt_number, result, payload, bot, payloads, ret>>

\* End of `with bot:` raises: the driver is left open or closed, the
\* exception becomes the attempt's outcome, line 134 is skipped.
BotExitRaises ==
    /\ pc = "exit"
    /\ open' \in {open, open \ {bot}}
    /\ outcome' = Failed
    /\ pc' = "iter"
    /\ Logged("exit", attempt_number, "raise")
    /\ UNCHANGED <<config, page, attempt_number, result, payload, bot, payloads, ret>>

\* Line 136 with a truthy result.
CheckTruthy ==
    /\ pc = "check"
    /\ Truthy(result)
    /\ pc' = "on_success"
    /\ UNCHANGED <<config, page, attempt_number, outcome, result, payload, bot, payloads, open, ret, log>>

\* Line 136 with a falsy result: the function ends without a return statement.
CheckFalsy ==
    /\ pc = "check"
    /\ ~Truthy(result)
    /\ pc' = "done"
    /\ ret' = Returned("None")
    /\ UNCHANGED <<config, page, attempt_number, outcome, result, payload, bot, payloads, open, log>>

\* An on_success whose exception is handled as exhaustion is.
OnSuccess_unguarded ==
    /\ pc = "on_success"
    /\ \/ \E value \in CallbackValues :
            /\ ret' = Returned(value)
            /\ pc' = "done"
            /\ Logged("on_success", payload, value)
       \/ /\ ret' = ret
          /\ pc' = "on_failure"
          /\ Logged("on_success", payload, "raise")
    /\ UNCHANGED <<config, page, attempt_number, outcome, result, payload, bot, payloads, open>>

\* Lines 137-142: on_success(payload) returns a value, which __call__
\* returns, or raises, and __call__ returns None.
OnSuccess ==
    /\ pc = "on_success"
    /\ \/ \E value \in CallbackValues :
            /\ ret' = Returned(value)
            /\ Logged("on_success", payload, value)
       \/ /\ ret' = Returned("None")
          /\ Logged("on_success", payload, "raise")
    /\ pc' = "done"
    /\ UNCHANGED <<config, page, attempt_number, outcome, result, payload, bot, payloads, open>>

\* Lines 144-150: on_failure(payload) returns a value, which __call__
\* returns, or raises, and __call__ returns None.
OnFailure ==
    /\ pc = "on_failure"
    /\ \/ \E value \in CallbackValues :
            /\ ret' = Returned(value)
            /\ Logged("on_failure", payload, value)
       \/ /\ ret' = Returned("None")
          /\ Logged("on_failure", payload, "raise")
    /\ pc' = "done"
    /\ UNCHANGED <<config, page, attempt_number, outcome, result, payload, bot, payloads, open>>

Next ==
    \/ IterDoAttempt
    \/ IterReturn
    \/ IterReraise
    \/ IterRetryError
    \/ IterDoSleep
    \/ Construct
    \/ ConstructRaises
    \/ RunReturns
    \/ RunRaises
    \/ SaveHtml
    \/ SaveHtmlRaises
    \/ SaveScreenshot
    \/ SaveScreenshotRaises
    \/ BotExit
    \/ BotExitRaises
    \/ CheckTruthy
    \/ CheckFalsy
    \/ OnSuccess
    \/ OnFailure

Spec == Init /\ [][Next]_vars

\* The call keeps running: run, the bot's construction and teardown, the
\* sleeps and the callbacks all return control, so some next step is taken.
FairSpec == Init /\ [][Next]_vars /\ WF_vars(Next)

\* ---- TestTask()(), the call with the example task of main.py ----

\* What __call__ does when run raised (lines 118-121), after `events`.
RunRaisedAfter(events) ==
    /\ result' = "False"
    /\ pc' = "save_html"
    /\ log' = log \o events \o << <<"run", attempt_number, "raise">> >>
    /\ page' = "-"
    /\ UNCHANGED <<config, attempt_number, outcome, payload, bot, payloads, open, ret>>

\* TestTask.run line 46, SearchPage(bot).forward() returns the next page.
RunSearchForward ==
    /\ pc = "run"
    /\ page = "-"
    /\ page' = forward("SearchPage")
    /\ Logged("forward", attempt_number, "SearchPage")
    /\ UNCHANGED <<config, pc, attempt_number, outcome, result, payload, bot, payloads, open, ret>>

\* TestTask.run line 46, SearchPage(bot).forward() raises: so does run.
RunSearchForwardRaises ==
    /\ pc = "run"
    /\ page = "-"
    /\ RunRaisedAfter(<< <<"forward_raise", attempt_number, "SearchPage">> >>)

\* TestTask.run lines 48-49, page.forward() returns the next page or None.
RunLoopForward ==
    /\ pc = "run"
    /\ page # "-"
    /\ PageTruthy(page)
    /\ page' = forward(page)
    /\ payloads' = [payloads EXCEPT ![bot].data =
          IF WritesPayload(page) THEN @ \cup {attempt_number} ELSE @]
    /\ Logged("forward", attempt_number, page)
    /\ UNCHANGED <<config, pc, attempt_number, outcome, result, payload, bot, open, ret>>

\* TestTask.run lines 48-49, page.forward() raises: so does run.
RunLoopForwardRaises ==
    /\ pc = "run"
    /\ page # "-"
    /\ PageTruthy(page)
    /\ RunRaisedAfter(<< <<"forward_raise", attempt_number, page>> >>)

\* TestTask.run lines 48 and 51, the loop ends and run returns True, which
\* __call__ collects (lines 115-117).
RunReturnsTrue ==
    /\ pc = "run"
    /\ page # "-"
    /\ ~PageTruthy(page)
    /\ result' = "True"
    /\ payload' = bot
    /\ payloads' = [payloads EXCEPT ![bot].result = "True"]
    /\ Logged("run", attempt_number, "True")
    /\ pc' = "exit"
    /\ page' = "-"
    /\ UNCHANGED <<config, attempt_number, outcome, bot, open, ret>>

TestTaskNext ==
    \/ IterDoAttempt
    \/ IterReturn
    \/ IterReraise
    \/ IterRetryError
    \/ IterDoSleep
    \/ Construct
    \/ ConstructRaises
    \/ RunSearchForward
    \/ RunSearchForwardRaises
    \/ RunLoopForward
    \/ RunLoopForwardRaises
    \/ RunReturnsTrue
    \/ SaveHtml
    \/ SaveHtmlRaises
    \/ SaveScreenshot
    \/ SaveScreenshotRaises
    \/ BotExit
    \/ BotExitRaises
    \/ CheckTruthy
    \/ OnSuccess
    \/ OnFailure

TestTaskSpec == Init /\ [][TestTaskNext]_vars

\* ---- what the history says ----

\* The positions of the log holding `event`.
Events(event) == {i \in DOMAIN log : log[i][1] = event}
Count(event) == Cardinality(Events(event))

Has(event, number, detail) == \E i \in DOMAIN log : log[i] = <<event, number, detail>>

\* The attempts started so far, and the events of attempt k.
Attempts == {log[i][2] : i \in Events("attempt")}
RunReturned(k, value) == Has("run", k, value)
RunRaised(k) == Has("run", k, "raise")

\* Attempt k failed the way run can make it fail: the bot was constructed,
\* run returned False or raised, and the bot's context was left normally.
FailedInRun(k) == (RunReturned(k, "False") \/ RunRaised(k)) /\ Has("exit", k, "ok")
EveryAttemptFailsInRun == \A k \in Attempts : FailedInRun(k)

\* The run of the final attempt returned a truthy value.
FinalRunTruthy == \E value \in RunValues : Truthy(value) /\ RunReturned(attempt_number, value)

Callbacks == Events("on_success") \cup Events("on_failure")

\* ---- C1 ----
\* C1: with an attempt limit N >= 1, when every attempt fails in run (run
\* returns False or raises), run has been invoked exactly N times when
\* on_failure is reached, and the call ends with exactly one on_failure,
\* no on_success and nothing after the on_failure.
C1_ExactlyNRunsThenFailure ==
    (BOT_MAX_RETRIES >= 1 /\ EveryAttemptFailsInRun) =>
        /\ pc = "on_failure" =>
              /\ Count("run") = BOT_MAX_RETRIES
              /\ Count("attempt") = BOT_MAX_RETRIES
              /\ Callbacks = {}
        /\ pc = "done" =>
              /\ Count("run") = BOT_MAX_RETRIES
              /\ Count("attempt") = BOT_MAX_RETRIES
              /\ Count("on_failure") = 1
              /\ Count("on_success") = 0
              /\ log[Len(log)][1] = "on_failure"

C1_Witness ==
    /\ pc = "done"
    /\ BOT_MAX_RETRIES = 2
    /\ EveryAttemptFailsInRun
    /\ RunReturned(1, "False")
    /\ RunRaised(2)
    /\ Count("on_failure") = 1

\* ---- C2 ----
\* C2: when a call has ended, on_success was invoked if and only if the run
\* of the final attempt returned a truthy value.
C2_SuccessIffFinalRunTruthy ==
    pc = "done" => (Count("on_success") >= 1 <=> FinalRunTruthy)

\* ---- C3 ----
\* C3: no exception raised during an attempt leaves Task.__call__, and a call
\* whose final attempt raised (anywhere in the attempt) ends with on_failure
\* after the attempt limit was reached.
C3_NoExceptionEscapes ==
    /\ ret.kind # "raise"
    /\ (pc = "done" /\ BOT_MAX_RETRIES >= 1 /\
        (Has("construct", attempt_number, "raise") \/ RunRaised(attempt_number)
           \/ Has("exit", attempt_number, "raise"))) =>
          (Count("attempt") = BOT_MAX_RETRIES /\ Count("on_failure") = 1)

C5_ReturnsBool ==
    (pc = "done" /\ ret.kind = "return") =>
        /\ Count("on_success") = 1 => ret.value = "True"
        /\ Count("on_failure") = 1 => ret.value = "False"

\* ---- C6 ----
\* The carrier of the final attempt could not be collected.
FinalCollectFailed ==
    \/ Has("save_html", attempt_number, "raise")
    \/ Has("save_screenshot", attempt_number, "raise")

\* The carrier on_failure must get: the one of the final attempt's bot, or
\* nothing when its collection failed.
FinalCarrier == IF FinalCollectFailed THEN NoPayload ELSE Len(payloads)

\* C6: when retries are exhausted, on_failure gets the carrier of the bot of
\* the final attempt, and gets None exactly when save_html or
\* save_screenshot raised in the final attempt.
C6_FailureGetsFinalCarrier ==
    /\ pc = "on_failure" =>
          /\ Has("construct", attempt_number, BOT_DRIVER_TYPE)
          /\ payload = FinalCarrier
    /\ \A c \in Events("on_failure") : log[c][2] = FinalCarrier

C6_Witness ==
    /\ RunReturned(1, "False")
    /\ Has("save_html", 2, "raise")
    /\ \E c \in Events("on_failure") : log[c][2] = NoPayload

\* ---- C7 ----
Sleeps(from, to) == {s \in Events("sleep") : from < s /\ s < to}

\* C7: there is exactly one sleep between two consecutive attempts, of
\* BOT_RETRY_DELAY, none before the first attempt, and none between the
\* final attempt and the callback: a sleep is always followed by the start
\* of the next attempt.
C7_OneDelayBetweenAttempts ==
    /\ \A i, j \in Events("attempt") :
          (i < j /\ \A m \in Events("attempt") : ~(i < m /\ m < j)) =>
              Cardinality(Sleeps(i, j)) = 1
    /\ \A s \in Events("sleep") :
          /\ log[s][2] = BOT_RETRY_DELAY
          /\ \E i \in Events("attempt") : i < s
          /\ IF s = Len(log)
             THEN pc = "iter" /\ ~outcome.set
             ELSE log[s + 1][1] = "attempt"

C7_Witness ==
    /\ pc = "done"
    /\ Count("sleep") = 2
    /\ RunReturned(1, "False")
    /\ RunRaised(2)
    /\ Callbacks # {}

\* ---- C8 ----
\* The bot of attempt k was constructed / has left its context.
Constructed(k) == \E i \in Events("construct") : log[i][2] = k /\ log[i][3] # "raise"
LeftContext(k) == \E i \in Events("exit") : log[i][2] = k

\* C8: at most one bot is open at any time, and when the next bot is about
\* to be constructed or a callback is or has been invoked, every bot
\* constructed so far has left its context and is closed.
C8_AttemptsNeverOverlap ==
    /\ Cardinality(open) <= 1
    /\ (pc \in {"attempt", "on_success", "on_failure"} \/ Callbacks # {}) =>
          /\ open = {}
          /\ \A k \in Attempts : Constructed(k) => LeftContext(k)

C8_Witness ==
    /\ pc = "attempt"
    /\ attempt_number = 2
    /\ RunRaised(1)

\* ---- C9 ----
\* C9: the bot of every attempt starts with a new, empty carrier, and the
\* carrier a callback gets holds no data written in an earlier attempt.
C9_FreshCarrierPerAttempt ==
    /\ pc = "run" =>
          /\ bot = Len(payloads)
          /\ payloads[bot] = EmptyPayload
          /\ payload # bot
    /\ \A c \in Callbacks :
          log[c][2] # NoPayload => payloads[log[c][2]].data \subseteq {attempt_number}

C9_Witness ==
    /\ attempt_number = 2
    /\ payloads[1].data = {1}
    /\ \E c \in Callbacks : log[c][2] = 2 /\ payloads[2].data = {2}

\* ---- C10 ----
\* C10: a call that returned has invoked exactly one callback, once.
C10_ExactlyOneCallback ==
    (pc = "done" /\ ret.kind = "return") => Cardinality(Callbacks) = 1

\* ---- C11 ----
\* C11: in one call each callback is invoked at most once and never both,
\* and once a callback was invoked (also when it raised) the call is over.
C11_CallbacksExclusive ==
    /\ Count("on_success") <= 1
    /\ Count("on_failure") <= 1
    /\ Count("on_success") + Count("on_failure") <= 1
    /\ Callbacks # {} => pc = "done"

C11_Witness ==
    /\ pc = "done"
    /\ BOT_MAX_RETRIES = 1
    /\ Count("on_failure") = 0
    /\ \E i \in Events("on_success") : log[i][3] = "raise"

\* ---- C12 ----
\* C12: a run that returned a truthy value is the run of the last attempt:
\* after it no attempt starts, no bot is constructed, nothing sleeps and
\* on_failure is not invoked.
C12_StopsAtFirstSuccess ==
    \A i \in Events("run") :
        Truthy(log[i][3]) =>
            /\ log[i][2] = attempt_number
            /\ pc # "on_failure"
            /\ \A j \in DOMAIN log :
                  j > i => log[j][1] \notin {"attempt", "construct", "run", "sleep", "on_failure"}

C12_Witness ==
    /\ pc = "done"
    /\ BOT_MAX_RETRIES = 3
    /\ RunReturned(1, "False")
    /\ RunReturned(2, "True")
    /\ Count("on_success") = 1

\* ---- C13 ----
\* C13: run is never invoked more than BOT_MAX_RETRIES times, for every
\* limit from 0 on.
C13_RunsAtMostN == Count("run") <= BOT_MAX_RETRIES

\* ---- C14 ----
\* C14: on_success always gets a carrier, whose result entry is the truthy
\* value the final run returned; a carrier given to on_failure has the
\* result entry False, the result of the final attempt.
C14_CarrierHoldsFinalResult ==
    /\ \A c \in Events("on_success") :
          /\ log[c][2] # NoPayload
          /\ Truthy(payloads[log[c][2]].result)
          /\ RunReturned(attempt_number, payloads[log[c][2]].result)
          /\ payloads[log[c][2]].result = result
    /\ \A c \in Events("on_failure") :
          log[c][2] # NoPayload =>
              /\ payloads[log[c][2]].result = "False"
              /\ payloads[log[c][2]].result = result

C14_Witness ==
    /\ RunReturned(1, "False")
    /\ RunRaised(2)
    /\ \E c \in Events("on_failure") : log[c][2] = 2

\* ---- C15 ----
\* C15: save_html is attempted exactly after a raising run, and
\* save_screenshot exactly after a save_html that returned, both while the
\* attempt's bot is open; after a save_html that raised the context is left
\* without a screenshot and without a carrier, and the attempt is a failed
\* attempt: a sleep and the next attempt, or on_failure, follow.
C15_SaveAfterRunRaised ==
    /\ pc \in {"save_html", "save_screenshot"} =>
          /\ bot \in open
          /\ RunRaised(attempt_number)
          /\ ~LeftContext(attempt_number)
    /\ pc = "save_html" <=> (log # <<>> /\ log[Len(log)] = <<"run", attempt_number, "raise">>)
    /\ \A i \in Events("save_html") : log[i - 1] = <<"run", log[i][2], "raise">>
    /\ \A i \in Events("save_screenshot") : log[i - 1] = <<"save_html", log[i][2], "ok">>
    /\ \A i \in Events("save_html") :
          log[i][3] = "ok" =>
              /\ i = Len(log) => pc = "save_screenshot"
              /\ i < Len(log) => log[i + 1][1] = "save_screenshot"
    /\ \A i \in Events("save_html") :
          log[i][3] = "raise" =>
              /\ i = Len(log) => (pc = "exit" /\ payload = NoPayload)
              /\ i < Len(log) => log[i + 1][1] = "exit"
              /\ (i + 1 = Len(log) /\ log[i + 1][3] = "ok") =>
                    /\ pc \in {"iter", "on_failure"}
                    /\ pc = "on_failure" => log[i][2] >= BOT_MAX_RETRIES
                    /\ outcome = Result("False")
                    /\ payload = NoPayload
              /\ (i + 1 < Len(log) /\ log[i + 1][3] = "ok") =>
                    log[i + 2][1] = (IF log[i][2] < BOT_MAX_RETRIES THEN "sleep" ELSE "on_failure")

C15_Witness ==
    /\ Has("save_html", 1, "raise")
    /\ ~Has("save_screenshot", 1, "ok")
    /\ ~Has("save_screenshot", 1, "raise")
    /\ Has("sleep", BOT_RETRY_DELAY, "-")
    /\ Has("save_screenshot", 2, "ok")

\* ---- C16 ----
\* C16: every call ends, and with a limit N >= 1 it never makes more than N
\* attempts nor sleeps more than N - 1 times.
C16_Terminates ==
    /\ <>(pc = "done")
    /\ [](BOT_MAX_RETRIES >= 1 =>
            /\ Count("attempt") <= BOT_MAX_RETRIES
            /\ Count("sleep") <= BOT_MAX_RETRIES - 1)

C16_Witness ==
    /\ pc = "done"
    /\ BOT_MAX_RETRIES = 3
    /\ Count("attempt") = 3
    /\ Count("sleep") = 2

\* ---- C17 ----
Forwards == Events("forward") \cup Events("forward_raise")

\* C17: TestTask.run calls forward first on SearchPage and then on the page
\* the previous forward returned; it returns True exactly after the forwards
\* of SearchPage and ProductPage, one each in that order, and it raises
\* exactly when a forward raised, without a further forward.
C17_RunWalksThePages ==
    /\ \A i \in Forwards :
          /\ log[i][3] = "SearchPage" <=> log[i - 1][1] = "construct"
          /\ log[i][3] = "ProductPage" <=> log[i - 1] = <<"forward", log[i][2], "SearchPage">>
          /\ log[i][3] \in {"SearchPage", "ProductPage"}
    /\ \A i \in Events("forward") :
          IF i = Len(log)
          THEN pc = "run" /\ page = forward(log[i][3])
          ELSE IF log[i][3] = "SearchPage"
               THEN log[i + 1][1] \in {"forward", "forward_raise"}
               ELSE log[i + 1] = <<"run", log[i][2], "True">>
    /\ \A i \in Events("forward_raise") : log[i + 1] = <<"run", log[i][2], "raise">>
    /\ \A i \in Events("run") :
          /\ log[i][3] \in {"True", "raise"}
          /\ log[i][3] = "raise" => log[i - 1][1] = "forward_raise"
          /\ log[i][3] = "True" =>
                /\ log[i - 1] = <<"forward", log[i][2], "ProductPage">>
                /\ log[i - 2] = <<"forward", log[i][2], "SearchPage">>
                /\ log[i - 3][1] = "construct"
    /\ pc # "run" => page = "-"

C17_Witness ==
    /\ pc = "done"
    /\ Has("forward_raise", 1, "ProductPage")
    /\ Has("forward", 2, "SearchPage")
    /\ Has("forward", 2, "ProductPage")
    /\ Has("run", 2, "True")
    /\ payloads[2].data = {2}

TypeOK ==
    /\ pc \in {"iter", "attempt", "run", "save_html", "save_screenshot", "exit",
               "check", "on_success", "on_failure", "done"}
    /\ attempt_number \in 1..(MaxRetries + 2)
    /\ result \in RunValues
    /\ payload \in 0..Len(payloads)
    /\ bot \in 0..Len(payloads)
    /\ ret.kind \in {"running", "return", "raise"}
====
